---- MODULE Spec2Model ----
(***************************************************************************)
(* A model of package config (src/config.go): a Config is a handle on a    *)
(* tree of Go values (map[string]any, []any, leaves).  Maps are references *)
(* to heap objects, slices are (array, len, cap) headers over heap arrays, *)
(* so that the aliasing Get, Set, Copy and Extend create is part of the    *)
(* state.  Strings (paths, keys) are sequences of one-character strings,   *)
(* so that splitting and joining paths is computed as the code does it.    *)
(***************************************************************************)
EXTENDS Integers, Sequences, FiniteSets, TLC

(***************************************************************************)
(* Go values.                                                              *)
(***************************************************************************)

\* the nil interface value (a YAML/JSON null, or a zeroed slice element)
Nil == [t |-> "nil"]

\* a string leaf
Str(s) == [t |-> "string", v |-> s]

\* a map[string]any: a reference to the heap object at address a
MapRef(a) == [t |-> "map", a |-> a]

\* a []any: a slice header over the heap array at address a
Slice(a, len, cap) == [t |-> "slice", a |-> a, len |-> len, cap |-> cap]

\* heap objects
MapObj(m) == [k |-> "map", m |-> m]
ArrObj(e) == [k |-> "arr", e |-> e]

\* a sequence of n nil values (the zeroed storage of make([]any, n))
Nils(n) == [i \in 1..n |-> Nil]

\* Put that keeps the value of a key the map already has
PutIfAbsent(m, key, value) ==
  [x \in (DOMAIN m) \cup {key} |-> IF x \in DOMAIN m THEN m[x] ELSE value]

\* m[key] = value on a Go map
Put(m, key, value) == [x \in (DOMAIN m) \cup {key} |-> IF x = key THEN value ELSE m[x]]

(***************************************************************************)
(* Errors.  An error is its kind and the text the message names.           *)
(***************************************************************************)
NoErr == [kind |-> "nil", at |-> <<>>]
Err(kind, at) == [kind |-> kind, at |-> at]
\* a run-time panic (index out of range, makeslice: len out of range)
Panic == [kind |-> "panic", at |-> <<>>]

(***************************************************************************)
(* Strings.                                                                *)
(***************************************************************************)
Digits == {"0", "1", "2", "3", "4", "5", "6", "7", "8", "9"}

DigitVal(ch) ==
  CASE ch = "0" -> 0 [] ch = "1" -> 1 [] ch = "2" -> 2 [] ch = "3" -> 3
    [] ch = "4" -> 4 [] ch = "5" -> 5 [] ch = "6" -> 6 [] ch = "7" -> 7
    [] ch = "8" -> 8 [] ch = "9" -> 9

\* the value of a string of decimal digits
RECURSIVE DigitsVal(_)
DigitsVal(s) ==
  IF s = <<>> THEN 0
  ELSE 10 * DigitsVal(SubSeq(s, 1, Len(s) - 1)) + DigitVal(s[Len(s)])

\* strconv.Atoi / strconv.ParseInt(s, 10, 0): an optional sign, then digits
Atoi(s) ==
  LET signed == s # <<>> /\ s[1] \in {"+", "-"}
      body   == IF signed THEN Tail(s) ELSE s
      ok     == body # <<>> /\ \A i \in 1..Len(body) : body[i] \in Digits
  IN IF ~ok THEN [ok |-> FALSE, n |-> 0]
     ELSE [ok |-> TRUE,
           n  |-> IF signed /\ s[1] = "-" THEN 0 - DigitsVal(body) ELSE DigitsVal(body)]

\* strings.Split(s, ".")
RECURSIVE Split(_)
Split(s) ==
  IF \A i \in 1..Len(s) : s[i] # "." THEN <<s>>
  ELSE LET i == CHOOSE i \in 1..Len(s) : s[i] = "." /\ \A j \in 1..(i - 1) : s[j] # "."
       IN <<SubSeq(s, 1, i - 1)>> \o Split(SubSeq(s, i + 1, Len(s)))

\* strings.Join(parts, sep)
RECURSIVE Join(_, _)
Join(parts, sep) ==
  IF parts = <<>> THEN <<>>
  ELSE IF Len(parts) = 1 THEN parts[1]
  ELSE parts[1] \o sep \o Join(Tail(parts), sep)

\* strings.HasPrefix(s, prefix)
HasPrefix(s, prefix) ==
  Len(prefix) <= Len(s) /\ SubSeq(s, 1, Len(prefix)) = prefix

\* the loop of splitKeyOnParts from character i on: bracketOpened, buffer and
\* parts are its local variables
RECURSIVE splitKeyLoop(_, _, _, _, _)
splitKeyLoop(key, i, bracketOpened, buffer, parts) ==
  IF i > Len(key)
    THEN IF buffer # <<>> THEN Append(parts, buffer) ELSE parts
  ELSE IF key[i] \in {"[", "]"}
    THEN splitKeyLoop(key, i + 1, key[i] = "[", buffer, parts)
  ELSE IF key[i] = "." /\ ~bracketOpened
    THEN splitKeyLoop(key, i + 1, bracketOpened, <<>>, Append(parts, buffer))
  ELSE splitKeyLoop(key, i + 1, bracketOpened, Append(buffer, key[i]), parts)

\* splitKeyOnParts that splits on every dot and keeps the brackets
splitKeyOnDots(key) == Split(key)

\* the read-path parser
splitKeyOnParts(key) == splitKeyLoop(key, 1, FALSE, <<>>, <<>>)

\* a variant of the check that looks only one part ahead, so that a later
\* empty part is met after the walk has begun
PathInvalidNext(split) == Len(split) >= 2 /\ split[2] = <<>>

\* "Normalize path" of Get and Set: a leading empty part is dropped, any
\* other empty part makes the path invalid
PathInvalid(split) == \E k \in 2..Len(split) : split[k] = <<>>
Normalize(split) == IF split # <<>> /\ split[1] = <<>> THEN Tail(split) ELSE split

(***************************************************************************)
(* Get.                                                                    *)
(***************************************************************************)

\* GetLoop that takes an index past the end of a list for a missing key
RECURSIVE GetLoopNoRange(_, _, _, _)
GetLoopNoRange(h, cfg, parts, pos) ==
  IF pos > Len(parts) THEN [v |-> cfg, err |-> NoErr]
  ELSE IF cfg.t = "slice" /\ Atoi(parts[pos]).ok /\ Atoi(parts[pos]).n >= 0
            /\ Atoi(parts[pos]).n < cfg.len
    THEN GetLoopNoRange(h, h[cfg.a].e[Atoi(parts[pos]).n + 1], parts, pos + 1)
  ELSE IF cfg.t = "map" /\ parts[pos] \in DOMAIN h[cfg.a].m
    THEN GetLoopNoRange(h, h[cfg.a].m[parts[pos]], parts, pos + 1)
  ELSE [v |-> Nil, err |-> Err("NoSuchKey", Join(SubSeq(parts, 1, pos), <<".">>))]

\* the "Get the value" loop of Get, at position pos (1-based) of parts
RECURSIVE GetLoop(_, _, _, _)
GetLoop(h, cfg, parts, pos) ==
  IF pos > Len(parts) THEN [v |-> cfg, err |-> NoErr]
  ELSE LET part == parts[pos]
           sub  == Join(SubSeq(parts, 1, pos), <<".">>)
       IN CASE cfg.t = "slice" ->
                 LET i == Atoi(part)
                 IN IF ~i.ok THEN [v |-> Nil, err |-> Err("InvalidIndex", sub)]
                    ELSE IF i.n >= cfg.len THEN [v |-> Nil, err |-> Err("IndexOutOfRange", sub)]
                    ELSE IF i.n < 0 THEN [v |-> Nil, err |-> Panic]
                    ELSE GetLoop(h, h[cfg.a].e[i.n + 1], parts, pos + 1)
            [] cfg.t = "map" ->
                 IF part \in DOMAIN h[cfg.a].m
                   THEN GetLoop(h, h[cfg.a].m[part], parts, pos + 1)
                   ELSE [v |-> Nil, err |-> Err("NoSuchKey", sub)]
            [] OTHER -> [v |-> Nil, err |-> Err("InvalidType", sub)]

\* Get(cfg, path) on heap h: the value at the path, or an error
Get(h, cfg, path) ==
  LET split == splitKeyOnParts(path)
  IN IF PathInvalid(split) THEN [v |-> Nil, err |-> Err("InvalidPath", path)]
     ELSE GetLoop(h, cfg, Normalize(split), 1)

\* typeMismatch(expected, got)
typeMismatch(expected, got) == Err("TypeMismatch", expected)

\* Config.List(path)
List(h, cfg, path) ==
  LET n == Get(h, cfg, path)
  IN IF n.err # NoErr THEN [v |-> Nil, err |-> n.err]
     ELSE IF n.v.t = "slice" THEN n
     ELSE [v |-> Nil, err |-> typeMismatch(<<"[", "]", "a", "n", "y">>, n.v)]

(***************************************************************************)
(* Typed leaves and their conversions.  A string leaf read by an accessor  *)
(* is a sequence of characters; a float64 is a decimal with one fractional *)
(* digit, given in tenths.                                                 *)
(***************************************************************************)
BoolLeaf(b) == [t |-> "bool", b |-> b]
IntLeaf(n) == [t |-> "int", n |-> n]
FloatLeaf(tenths) == [t |-> "float64", tenths |-> tenths]

Abs(n) == IF n < 0 THEN 0 - n ELSE n

\* strconv.Itoa(i), i >= 0
RECURSIVE Itoa(_)
Itoa(i) ==
  LET d == CHOOSE ch \in Digits : DigitVal(ch) = i % 10
  IN IF i < 10 THEN <<d>> ELSE Append(Itoa(i \div 10), d)

\* fmt.Sprint(i) of an int
SprintInt(i) == IF i < 0 THEN <<"-">> \o Itoa(0 - i) ELSE Itoa(i)

\* a string of digits without its trailing zeros
RECURSIVE StripZeros(_)
StripZeros(ds) ==
  IF ds # <<>> /\ ds[Len(ds)] = "0" THEN StripZeros(SubSeq(ds, 1, Len(ds) - 1)) ELSE ds

\* the exponent of the %e form: a sign and at least two digits
SprintExp(exp) == <<"e", "+">> \o (IF exp < 10 THEN <<"0">> ELSE <<>>) \o Itoa(exp)

\* fmt.Sprint(n) of a float64 (the verb %v: %g with the shortest digits that
\* give n back, %e when the exponent is < -4 or >= 6), for |n| >= 0.1 or 0
SprintFloat(tenths) ==
  LET a      == Abs(tenths)
      sign   == IF tenths < 0 THEN <<"-">> ELSE <<>>
      whole  == a \div 10
      digits == StripZeros(Itoa(a))
      exp    == IF whole > 0 THEN Len(Itoa(whole)) - 1 ELSE 0 - 1
  IN IF a = 0 THEN <<"0">>
     ELSE IF exp >= 6
       THEN sign \o <<digits[1]>> \o (IF Len(digits) > 1 THEN <<".">> \o Tail(digits) ELSE <<>>)
              \o SprintExp(exp)
     ELSE sign \o Itoa(whole) \o (IF a % 10 # 0 THEN <<".">> \o Itoa(a % 10) ELSE <<>>)

\* int(n) of a float64: the truncation toward zero
TruncFloat(tenths) == IF tenths < 0 THEN 0 - (Abs(tenths) \div 10) ELSE tenths \div 10

\* strconv.ParseBool(s)
ParseBool(s) ==
  IF s \in {<<"1">>, <<"t">>, <<"T">>, <<"T", "R", "U", "E">>, <<"t", "r", "u", "e">>,
            <<"T", "r", "u", "e">>}
    THEN [ok |-> TRUE, v |-> TRUE]
  ELSE IF s \in {<<"0">>, <<"f">>, <<"F">>, <<"F", "A", "L", "S", "E">>,
                 <<"f", "a", "l", "s", "e">>, <<"F", "a", "l", "s", "e">>}
    THEN [ok |-> TRUE, v |-> FALSE]
  ELSE [ok |-> FALSE, v |-> FALSE]

\* strconv.ParseFloat(s, 64), for the decimal texts with at most one
\* fractional digit: an optional sign, digits, and optionally a dot and a
\* digit; any other text read here is no number
ParseFloat(s) ==
  LET dotted == Len(s) >= 3 /\ s[Len(s) - 1] = "."  /\ s[Len(s)] \in Digits
      whole  == Atoi(IF dotted THEN SubSeq(s, 1, Len(s) - 2) ELSE s)
      frac   == IF dotted THEN DigitVal(s[Len(s)]) ELSE 0
  IN IF ~whole.ok THEN [ok |-> FALSE, tenths |-> 0]
     ELSE [ok |-> TRUE,
           tenths |-> IF s[1] = "-" THEN 10 * whole.n - frac ELSE 10 * whole.n + frac]

(***************************************************************************)
(* Set.                                                                    *)
(***************************************************************************)

\* the capacity of the array append allocates when a slice of capacity cap
\* is full (the Go runtime doubles small slices)
GrowCap(cap) == IF cap = 0 THEN 1 ELSE cap + cap

\* append(c, x): within capacity the shared array is written, else a new
\* array is allocated and the elements copied; the result is the new
\* header, which only the caller's local variable holds
GoAppend(h, c, x) ==
  IF c.len < c.cap
    THEN [h |-> [h EXCEPT ![c.a].e[c.len + 1] = x],
          c |-> Slice(c.a, c.len + 1, c.cap)]
    ELSE LET cap == GrowCap(c.cap)
             e   == [i \in 1..cap |->
                       IF i <= c.len THEN h[c.a].e[i] ELSE IF i = c.len + 1 THEN x ELSE Nil]
         IN [h |-> Append(h, ArrObj(e)), c |-> Slice(Len(h) + 1, c.len + 1, cap)]

\* for len(c) <= i { c = append(c, nil) }
RECURSIVE GrowTo(_, _, _)
GrowTo(h, c, i) ==
  IF c.len > i THEN [h |-> h, c |-> c]
  ELSE LET r == GoAppend(h, c, Nil) IN GrowTo(r.h, r.c, i)

\* make([]any, n): a new zeroed array and the header over it
MakeSlice(h, n) == [h |-> Append(h, ArrObj(Nils(n))), v |-> Slice(Len(h) + 1, n, n)]

\* make(map[string]any)
MakeMap(h) == [h |-> Append(h, MapObj(<<>>)), v |-> MapRef(Len(h) + 1)]

\* Materialize that makes a map whatever the next part is
MaterializeMap(h, next) ==
  LET m == MakeMap(h) IN [ok |-> TRUE, h |-> m.h, v |-> m.v]

\* "create it": the container Set materializes for a missing key or a nil
\* element, chosen by whether the next part is an integer; ok is FALSE when
\* make panics on a negative length
Materialize(h, next) ==
  LET i == Atoi(next)
  IN IF i.ok
       THEN IF i.n + 1 < 0 THEN [ok |-> FALSE, h |-> h, v |-> Nil]
            ELSE LET s == MakeSlice(h, i.n + 1) IN [ok |-> TRUE, h |-> s.h, v |-> s.v]
       ELSE LET m == MakeMap(h) IN [ok |-> TRUE, h |-> m.h, v |-> m.v]

\* Set(cfg, path, value) on heap h: the heap after the call and the error
RECURSIVE Set(_, _, _, _)
Set(h, cfg, path, value) ==
  LET split == Split(path)
      parts == Normalize(split)
      rest  == Join(Tail(parts), <<".">>)
  IN IF PathInvalid(split) THEN [h |-> h, err |-> Err("InvalidPath", path)]
     ELSE IF parts = <<>> THEN [h |-> h, err |-> NoErr]
     ELSE CASE cfg.t = "map" ->
                 LET c == h[cfg.a].m
                 IN IF Len(parts) = 1
                      THEN [h |-> [h EXCEPT ![cfg.a].m = Put(c, parts[1], value)], err |-> NoErr]
                    ELSE IF parts[1] \in DOMAIN c
                      THEN Set(h, c[parts[1]], rest, value)
                    ELSE LET new == Materialize(h, parts[2])
                         IN IF ~new.ok THEN [h |-> h, err |-> Panic]
                            ELSE Set([new.h EXCEPT ![cfg.a].m = Put(c, parts[1], new.v)],
                                     new.v, rest, value)
            [] cfg.t = "slice" ->
                 LET i == Atoi(parts[1])
                 IN IF ~i.ok THEN [h |-> h, err |-> Err("InvalidIndex", parts[1])]
                    ELSE LET g == GrowTo(h, cfg, i.n)
                             c == g.c
                         IN IF i.n < 0 THEN [h |-> g.h, err |-> Panic]
                            ELSE IF Len(parts) = 1
                              THEN [h |-> [g.h EXCEPT ![c.a].e[i.n + 1] = value], err |-> NoErr]
                            ELSE IF g.h[c.a].e[i.n + 1].t = "nil"
                              THEN LET new == Materialize(g.h, parts[2])
                                   IN IF ~new.ok THEN [h |-> g.h, err |-> Panic]
                                      ELSE Set([new.h EXCEPT ![c.a].e[i.n + 1] = new.v],
                                               new.v, rest, value)
                            ELSE Set(g.h, g.h[c.a].e[i.n + 1], rest, value)
            [] OTHER -> [h |-> h, err |-> Err("InvalidTypeAtRoot", <<>>)]

(***************************************************************************)
(* Typed accessors.  Each resolves the path with Get and converts what it  *)
(* finds; a U accessor returns the value, or its first default, or the     *)
(* zero value of its type.                                                 *)
(***************************************************************************)
ConversionErr == Err("Conversion", <<>>)

BoolOf(n) ==
  IF n.err # NoErr THEN [v |-> BoolLeaf(FALSE), err |-> n.err]
  ELSE IF n.v.t = "bool" THEN [v |-> n.v, err |-> NoErr]
  ELSE IF n.v.t = "string"
    THEN IF ParseBool(n.v.v).ok THEN [v |-> BoolLeaf(ParseBool(n.v.v).v), err |-> NoErr]
         ELSE [v |-> BoolLeaf(FALSE), err |-> ConversionErr]
  ELSE [v |-> BoolLeaf(FALSE), err |-> typeMismatch(
         <<"b", "o", "o", "l", " ", "o", "r", " ", "s", "t", "r", "i", "n", "g">>,
         n.v)]

Bool(h, cfg, path) == BoolOf(Get(h, cfg, path))

Float64Of(n) ==
  IF n.err # NoErr THEN [v |-> FloatLeaf(0), err |-> n.err]
  ELSE IF n.v.t = "float64" THEN [v |-> n.v, err |-> NoErr]
  ELSE IF n.v.t = "int" THEN [v |-> FloatLeaf(10 * n.v.n), err |-> NoErr]
  ELSE IF n.v.t = "string"
    THEN IF ParseFloat(n.v.v).ok THEN [v |-> FloatLeaf(ParseFloat(n.v.v).tenths), err |-> NoErr]
         ELSE [v |-> FloatLeaf(0), err |-> ConversionErr]
  ELSE [v |-> FloatLeaf(0), err |-> typeMismatch(
         <<"f", "l", "o", "a", "t", "6", "4", ",", " ", "i", "n", "t", " ", "o", "r", " ", "s", "t", "r", "i", "n", "g">>,
         n.v)]

Float64(h, cfg, path) == Float64Of(Get(h, cfg, path))

\* the float64 case of Int: the text of the truncation against the text of
\* the float
IntOfFloat(tenths) ==
  IF SprintInt(TruncFloat(tenths)) = SprintFloat(tenths)
    THEN [v |-> IntLeaf(TruncFloat(tenths)), err |-> NoErr]
  ELSE [v |-> IntLeaf(0), err |-> ConversionErr]

IntOf(n) ==
  IF n.err # NoErr THEN [v |-> IntLeaf(0), err |-> n.err]
  ELSE IF n.v.t = "float64" THEN IntOfFloat(n.v.tenths)
  ELSE IF n.v.t = "int" THEN [v |-> n.v, err |-> NoErr]
  ELSE IF n.v.t = "string"
    THEN IF Atoi(n.v.v).ok THEN [v |-> IntLeaf(Atoi(n.v.v).n), err |-> NoErr]
         ELSE [v |-> IntLeaf(0), err |-> ConversionErr]
  ELSE [v |-> IntLeaf(0), err |-> typeMismatch(
         <<"f", "l", "o", "a", "t", "6", "4", ",", " ", "i", "n", "t", " ", "o", "r", " ", "s", "t", "r", "i", "n", "g">>,
         n.v)]

ConfigInt(h, cfg, path) == IntOf(Get(h, cfg, path))

MapOf(n) ==
  IF n.err # NoErr THEN [v |-> Nil, err |-> n.err]
  ELSE IF n.v.t = "map" THEN [v |-> n.v, err |-> NoErr]
  ELSE [v |-> Nil, err |-> typeMismatch(
         <<"m", "a", "p", "[", "s", "t", "r", "i", "n", "g", "]", "a", "n", "y">>,
         n.v)]

Map(h, cfg, path) == MapOf(Get(h, cfg, path))

StringOf(n) ==
  IF n.err # NoErr THEN [v |-> Str(<<>>), err |-> n.err]
  ELSE IF n.v.t = "bool"
    THEN [v |-> Str(IF n.v.b THEN <<"t", "r", "u", "e">> ELSE <<"f", "a", "l", "s", "e">>),
          err |-> NoErr]
  ELSE IF n.v.t = "float64" THEN [v |-> Str(SprintFloat(n.v.tenths)), err |-> NoErr]
  ELSE IF n.v.t = "int" THEN [v |-> Str(SprintInt(n.v.n)), err |-> NoErr]
  ELSE IF n.v.t = "string" THEN [v |-> n.v, err |-> NoErr]
  ELSE [v |-> Str(<<>>), err |-> typeMismatch(
         <<"b", "o", "o", "l", ",", " ", "f", "l", "o", "a", "t", "6", "4", ",", " ", "i", "n", "t", " ", "o", "r", " ", "s", "t", "r", "i", "n", "g">>,
         n.v)]

String(h, cfg, path) == StringOf(Get(h, cfg, path))

\* the body every U accessor shares: value, err := c.X(path); the value when
\* err is nil, else the first of the defaults, else the zero value.  A panic
\* of the accessor is a panic of the U accessor.
OrDefault(h, r, defaults, zero) ==
  IF r.err = Panic THEN [h |-> h, v |-> Nil, err |-> Panic]
  ELSE IF r.err = NoErr THEN [h |-> h, v |-> r.v, err |-> NoErr]
  ELSE IF defaults # <<>> THEN [h |-> h, v |-> defaults[1], err |-> NoErr]
  ELSE [h |-> zero.h, v |-> zero.v, err |-> NoErr]

UBool(h, cfg, path, defaults) ==
  OrDefault(h, Bool(h, cfg, path), defaults, [h |-> h, v |-> BoolLeaf(FALSE)])

UFloat64(h, cfg, path, defaults) ==
  OrDefault(h, Float64(h, cfg, path), defaults, [h |-> h, v |-> FloatLeaf(0)])

UInt(h, cfg, path, defaults) ==
  OrDefault(h, ConfigInt(h, cfg, path), defaults, [h |-> h, v |-> IntLeaf(0)])

UList(h, cfg, path, defaults) ==
  OrDefault(h, List(h, cfg, path), defaults, MakeSlice(h, 0))

UMap(h, cfg, path, defaults) ==
  OrDefault(h, Map(h, cfg, path), defaults, MakeMap(h))

UString(h, cfg, path, defaults) ==
  OrDefault(h, String(h, cfg, path), defaults, [h |-> h, v |-> Str(<<>>)])

(***************************************************************************)
(* Serialization.  The text RenderYaml produces is modelled by the         *)
(* document it denotes: a tree of values without addresses or capacities.  *)
(***************************************************************************)
DMap(m) == [t |-> "map", m |-> m]
DSeq(e) == [t |-> "slice", e |-> e]

\* RenderYaml(cfg): the document of the tree under cfg
RECURSIVE RenderYaml(_, _)
RenderYaml(h, cfg) ==
  CASE cfg.t = "map" ->
         DMap([k \in DOMAIN h[cfg.a].m |-> RenderYaml(h, h[cfg.a].m[k])])
    [] cfg.t = "slice" ->
         DSeq([i \in 1..cfg.len |-> RenderYaml(h, h[cfg.a].e[i])])
    [] OTHER -> cfg

\* the elements of a finite set in some fixed order
RECURSIVE SetToSeq(_)
SetToSeq(S) ==
  IF S = {} THEN <<>> ELSE LET x == CHOOSE x \in S : TRUE IN <<x>> \o SetToSeq(S \ {x})

\* normalizeValue(value): rebuilds the decoded document out of new maps
\* (make(map, len)) and new arrays (make([]any, len)); normalizeAll does
\* it for a sequence of documents, threading the heap
RECURSIVE normalizeValue(_, _), normalizeAll(_, _)
normalizeAll(h, ds) ==
  IF ds = <<>> THEN [h |-> h, vs |-> <<>>]
  ELSE LET first == normalizeValue(h, Head(ds))
           rest  == normalizeAll(first.h, Tail(ds))
       IN [h |-> rest.h, vs |-> <<first.v>> \o rest.vs]
normalizeValue(h, value) ==
  CASE value.t = "map" ->
         LET keys == SetToSeq(DOMAIN value.m)
             kids == normalizeAll(h, [i \in 1..Len(keys) |-> value.m[keys[i]]])
             node == [k \in DOMAIN value.m |->
                        kids.vs[CHOOSE i \in 1..Len(keys) : keys[i] = k]]
         IN [h |-> Append(kids.h, MapObj(node)), v |-> MapRef(Len(kids.h) + 1)]
    [] value.t = "slice" ->
         LET kids == normalizeAll(h, value.e)
         IN [h |-> Append(kids.h, ArrObj(kids.vs)),
             v |-> Slice(Len(kids.h) + 1, Len(value.e), Len(value.e))]
    [] OTHER -> [h |-> h, v |-> value]

\* ParseYaml(text): decode, then normalizeValue; the Root of the new Config
ParseYaml(h, text) == normalizeValue(h, text)

\* Copy without the round trip: the Config got is returned as it is
CopyShared(h, c, dottedPath) ==
  LET toJoin == SelectSeq(dottedPath, LAMBDA part : Len(part) # 0)
      path   == Join(toJoin, <<".">>)
      cfg    == IF Len(path) > 0 THEN Get(h, c, path) ELSE [v |-> c, err |-> NoErr]
  IN [h |-> h, ok |-> cfg.err = NoErr, v |-> cfg.v, err |-> cfg.err]

\* Config.Copy(dottedPath...): render the tree (under the path, when one is
\* given) and parse the text again
Copy(h, c, dottedPath) ==
  LET toJoin == SelectSeq(dottedPath, LAMBDA part : Len(part) # 0)
      path   == Join(toJoin, <<".">>)
      cfg    == IF Len(path) > 0 THEN Get(h, c, path) ELSE [v |-> c, err |-> NoErr]
  IN IF cfg.err # NoErr THEN [h |-> h, ok |-> FALSE, v |-> Nil, err |-> cfg.err]
     ELSE LET n == ParseYaml(h, RenderYaml(h, cfg.v))
          IN [h |-> n.h, ok |-> TRUE, v |-> n.v, err |-> NoErr]

(***************************************************************************)
(* Enumeration of keys.  Go ranges over a map in an unspecified order, so  *)
(* getKeys and findArrayPaths denote the set of lists they can return.     *)
(***************************************************************************)

\* the orders a range over a map with key set S can take
RangeOrders(S) ==
  {p \in [1..Cardinality(S) -> S] : \A i, j \in 1..Cardinality(S) : p[i] = p[j] => i = j}

\* the concatenations of one list from each set of lists, in order
RECURSIVE ConcatChoices(_)
ConcatChoices(sets) ==
  IF sets = <<>> THEN {<<>>}
  ELSE {x \o y : x \in Head(sets), y \in ConcatChoices(Tail(sets))}

\* getKeys(source, base...): the lists of leaf paths (as lists of parts)
RECURSIVE getKeys(_, _, _)
getKeys(h, source, base) ==
  CASE source.t = "map" ->
         LET c == h[source.a].m
         IN UNION {ConcatChoices([i \in 1..Len(p) |-> getKeys(h, c[p[i]], Append(base, p[i]))])
                     : p \in RangeOrders(DOMAIN c)}
    [] source.t = "slice" ->
         ConcatChoices([i \in 1..source.len |->
                          getKeys(h, h[source.a].e[i], Append(base, Itoa(i - 1)))])
    [] OTHER -> {<<base>>}

\* findArrayPathsRecursive(value, path, paths): the lists of paths it can
\* append to paths
RECURSIVE findArrayPathsRecursive(_, _, _)
findArrayPathsRecursive(h, value, path) ==
  CASE value.t = "slice" -> {<<path>>}
    [] value.t = "map" ->
         LET v == h[value.a].m
             newPath(k) == (IF path # <<>> THEN path \o <<".">> ELSE path) \o k
         IN UNION {ConcatChoices([i \in 1..Len(p) |->
                                    findArrayPathsRecursive(h, v[p[i]], newPath(p[i]))])
                     : p \in RangeOrders(DOMAIN v)}
    [] OTHER -> {<<>>}

\* findArrayPaths(root)
findArrayPaths(h, root) == findArrayPathsRecursive(h, root, <<>>)

(***************************************************************************)
(* Overrides from the environment and from the command line.  The          *)
(* environment is a function from the names that are set to their values;  *)
(* a command line is the program name followed by flags, each a name and   *)
(* a value (-name=value, or -name value).                                  *)
(***************************************************************************)
LowerCase ==
  <<"a", "b", "c", "d", "e", "f", "g", "h", "i", "j", "k", "l", "m", "n", "o", "p", "q", "r", "s", "t", "u", "v", "w", "x", "y", "z">>
UpperCase ==
  <<"A", "B", "C", "D", "E", "F", "G", "H", "I", "J", "K", "L", "M", "N", "O", "P", "Q", "R", "S", "T", "U", "V", "W", "X", "Y", "Z">>

\* the bytes of the names in ascending order
ByteOrder == <<"-", ".">> \o <<"0", "1", "2", "3", "4", "5", "6", "7", "8", "9">> \o UpperCase \o <<"_">> \o LowerCase

\* strings.ToUpper(s)
ToUpper(s) ==
  [i \in 1..Len(s) |->
     IF \E j \in 1..Len(LowerCase) : LowerCase[j] = s[i]
       THEN UpperCase[CHOOSE j \in 1..Len(LowerCase) : LowerCase[j] = s[i]]
     ELSE s[i]]

\* strings.ReplaceAll(s, "-", ".")
ReplaceAll(s) == [i \in 1..Len(s) |-> IF s[i] = "-" THEN "." ELSE s[i]]

\* EnvPrefix(prefix): for each key of keys (what getKeys returned), in order,
\* the variable prefix + ToUpper(Join(key, "_")) when it is set is written
\* with Set at Join(key, "."); the error of Set is dropped
RECURSIVE EnvLoop(_, _, _, _, _, _)
EnvSet(set, cfg, prefix, env, keys, i) ==
  IF set.err = Panic THEN set ELSE EnvLoop(set.h, cfg, prefix, env, keys, i + 1)

EnvLoop(h, cfg, prefix, env, keys, i) ==
  IF i > Len(keys) THEN [h |-> h, err |-> NoErr]
  ELSE IF prefix \o ToUpper(Join(keys[i], <<"_">>)) \notin DOMAIN env
    THEN EnvLoop(h, cfg, prefix, env, keys, i + 1)
  ELSE EnvSet(Set(h, cfg, Join(keys[i], <<".">>),
                  Str(env[prefix \o ToUpper(Join(keys[i], <<"_">>))])),
              cfg, prefix, env, keys, i)

EnvPrefix(h, cfg, prefix, env, keys) ==
  EnvLoop(h, cfg, IF prefix # <<>> THEN ToUpper(prefix) \o <<"_">> ELSE prefix, env, keys, 1)

Env(h, cfg, env, keys) == EnvPrefix(h, cfg, <<>>, env, keys)

\* the names of the flags registered for the keys: strings.Join(key, "-")
FlagNames(keys) == [i \in 1..Len(keys) |-> Join(keys[i], <<"-">>)]

\* StringVar panics when a name is registered twice (flag redefined)
Redefined(names) == \E i, j \in 1..Len(names) : i < j /\ names[i] = names[j]

\* val, _ := c.String(k) for each name: only a panic is not dropped
StringPanics(h, cfg, names) == \E i \in 1..Len(names) : String(h, cfg, names[i]).err = Panic

\* f.Parse(args[1:]): the flags in order; a name that is not registered
\* ends the parse with an error; the flags seen are the actual ones
RECURSIVE ParseFlags(_, _, _, _)
ParseFlags(names, flags, i, actual) ==
  IF i > Len(flags) THEN [actual |-> actual, err |-> NoErr]
  ELSE IF \A j \in 1..Len(names) : names[j] # flags[i].name
    THEN [actual |-> actual, err |-> Err("FlagNotDefined", flags[i].name)]
  ELSE ParseFlags(names, flags, i + 1,
                  [n \in DOMAIN actual \cup {flags[i].name} |->
                     IF n = flags[i].name THEN flags[i].value ELSE actual[n]])

\* the order of two names as byte strings
RECURSIVE Less(_, _)
Less(s, t) ==
  IF s = <<>> THEN t # <<>>
  ELSE IF t = <<>> THEN FALSE
  ELSE IF s[1] = t[1] THEN Less(Tail(s), Tail(t))
  ELSE (CHOOSE j \in 1..Len(ByteOrder) : ByteOrder[j] = s[1])
         < (CHOOSE j \in 1..Len(ByteOrder) : ByteOrder[j] = t[1])

\* Visit calls its function for the actual flags in the order of their names
RECURSIVE SortNames(_)
SortNames(S) ==
  IF S = {} THEN <<>>
  ELSE LET least == CHOOSE s \in S : \A t \in S \ {s} : Less(s, t)
       IN <<least>> \o SortNames(S \ {least})

\* f.Visit(...): Set at ReplaceAll(f.Name, "-", ".") with the value of the
\* flag; the error of Set is dropped
RECURSIVE VisitLoop(_, _, _, _, _)
VisitSet(set, cfg, actual, order, i) ==
  IF set.err = Panic THEN set ELSE VisitLoop(set.h, cfg, actual, order, i + 1)

VisitLoop(h, cfg, actual, order, i) ==
  IF i > Len(order) THEN [h |-> h, err |-> NoErr]
  ELSE VisitSet(Set(h, cfg, ReplaceAll(order[i]), Str(actual[order[i]])),
                cfg, actual, order, i)

Visit(h, cfg, actual) == VisitLoop(h, cfg, actual, SortNames(DOMAIN actual), 1)

ArgsVisited(visited, lastErr) == [h |-> visited.h, err |-> visited.err, lastErr |-> lastErr]

ArgsParsed(h, cfg, parsed) == ArgsVisited(Visit(h, cfg, parsed.actual), parsed.err)

\* Args(args...), keys being what getKeys returned
Args(h, cfg, args, keys) ==
  IF Len(args) <= 1 THEN [h |-> h, err |-> NoErr, lastErr |-> NoErr]
  ELSE IF Redefined(FlagNames(keys)) \/ StringPanics(h, cfg, FlagNames(keys))
    THEN [h |-> h, err |-> Panic, lastErr |-> NoErr]
  ELSE ArgsParsed(h, cfg, ParseFlags(FlagNames(keys), Tail(args), 1, <<>>))

\* flag.Parse() of the command line exits the process on an error
Exit == Err("Exit", <<>>)

FlagParsed(h, cfg, parsed) ==
  IF parsed.err # NoErr THEN [h |-> h, err |-> Exit, lastErr |-> NoErr]
  ELSE ArgsVisited(Visit(h, cfg, parsed.actual), NoErr)

\* Flag(), osArgs being os.Args and keys what getKeys returned
Flag(h, cfg, osArgs, keys) ==
  IF Redefined(FlagNames(keys)) \/ StringPanics(h, cfg, FlagNames(keys))
    THEN [h |-> h, err |-> Panic, lastErr |-> NoErr]
  ELSE FlagParsed(h, cfg, ParseFlags(FlagNames(keys), Tail(osArgs), 1, <<>>))

(***************************************************************************)
(* Extend.                                                                 *)
(***************************************************************************)

\* the nil *Config
NoConfig == [t |-> "noconfig"]

\* MergeLoop with the override forgotten: every item is appended
RECURSIVE MergeLoopAppendOnly(_, _, _, _)
MergeLoopAppendOnly(h, mergedArr, sourceArr, i) ==
  IF i >= sourceArr.len THEN [h |-> h, c |-> mergedArr]
  ELSE LET r == GoAppend(h, mergedArr, h[sourceArr.a].e[i + 1])
       IN MergeLoopAppendOnly(r.h, r.c, sourceArr, i + 1)

\* "Override existing elements and append new ones": the loop over
\* sourceArr from index i (0-based) on
RECURSIVE MergeLoop(_, _, _, _)
MergeLoop(h, mergedArr, sourceArr, i) ==
  IF i >= sourceArr.len THEN [h |-> h, c |-> mergedArr]
  ELSE LET item == h[sourceArr.a].e[i + 1]
       IN IF i < mergedArr.len
            THEN MergeLoop([h EXCEPT ![mergedArr.a].e[i + 1] = item], mergedArr, sourceArr, i + 1)
            ELSE LET r == GoAppend(h, mergedArr, item)
                 IN MergeLoop(r.h, r.c, sourceArr, i + 1)

\* MergeArrays with the merge forgotten: the source array as it is
MergeArraysSourceOnly(h, targetArr, sourceArr) == [h |-> h, c |-> sourceArr]

\* MergeArrays with the operands swapped and no new array: the target's
\* elements are written into the source array
MergeArraysIntoSource(h, targetArr, sourceArr) == MergeLoop(h, sourceArr, targetArr, 0)

\* "We have arrays in both source and target, merge them": mergedArr is a
\* new array holding a copy of targetArr, then overridden by sourceArr
MergeArrays(h, targetArr, sourceArr) ==
  LET e == [i \in 1..targetArr.len |-> h[targetArr.a].e[i]]
  IN MergeLoop(Append(h, ArrObj(e)), Slice(Len(h) + 1, targetArr.len, targetArr.len),
               sourceArr, 0)

\* "Process arrays first": the loop over arrayPaths from position i on; n is
\* the Root of the copy, cfg the Root of the source config
RECURSIVE ExtendArrays(_, _, _, _, _, _)

\* the end of one round of that loop: set is what n.Set(path, ...) returned
ArraySet(set, n, cfg, arrayPaths, i, processedPaths) ==
  IF set.err # NoErr
    THEN [h |-> set.h, err |-> set.err, processedPaths |-> processedPaths]
    ELSE ExtendArrays(set.h, n, cfg, arrayPaths, i + 1, processedPaths \cup {arrayPaths[i]})

\* n.Set(path, mergedArr)
SetMerged(mergedArr, n, path) == Set(mergedArr.h, n, path, mergedArr.c)

\* one round of that loop, sourceArr and targetArr being what cfg.List(path)
\* and n.List(path) returned
ArrayRound(h, n, cfg, arrayPaths, i, processedPaths, sourceArr, targetArr) ==
  IF sourceArr.err # NoErr
    THEN [h |-> h, err |-> sourceArr.err, processedPaths |-> processedPaths]
  ELSE IF targetArr.err = NoErr
    THEN ArraySet(SetMerged(MergeArrays(h, targetArr.v, sourceArr.v), n, arrayPaths[i]),
                  n, cfg, arrayPaths, i, processedPaths)
    ELSE ArraySet(Set(h, n, arrayPaths[i], sourceArr.v), n, cfg, arrayPaths, i, processedPaths)

ExtendArrays(h, n, cfg, arrayPaths, i, processedPaths) ==
  IF i > Len(arrayPaths) THEN [h |-> h, err |-> NoErr, processedPaths |-> processedPaths]
  ELSE IF arrayPaths[i] = <<>>
    THEN ExtendArrays(h, n, cfg, arrayPaths, i + 1, processedPaths)
    ELSE ArrayRound(h, n, cfg, arrayPaths, i, processedPaths,
                    List(h, cfg, arrayPaths[i]), List(h, n, arrayPaths[i]))

\* "Process all other keys": the loop over keys from position i on
RECURSIVE ExtendKeys(_, _, _, _, _, _)

\* the end of one round of that loop: set is what n.Set(k, val) returned
KeySet(set, n, cfg, keys, i, processedPaths) ==
  IF set.err # NoErr THEN [h |-> set.h, err |-> set.err]
  ELSE ExtendKeys(set.h, n, cfg, keys, i + 1, processedPaths)

\* one round of that loop for a key that is not skipped, got being what
\* Get(cfg.Root, k) returned
KeyRound(h, n, cfg, keys, i, processedPaths, k, got) ==
  IF got.err # NoErr THEN [h |-> h, err |-> got.err]
  ELSE KeySet(Set(h, n, k, got.v), n, cfg, keys, i, processedPaths)

\* "Skip if this path is part of a processed array"
skipPath(k, processedPaths) ==
  \E path \in processedPaths : k = path \/ HasPrefix(k, path \o <<".">>)

\* one round of that loop for the key k
KeyStep(h, n, cfg, keys, i, processedPaths, k) ==
  IF skipPath(k, processedPaths) THEN ExtendKeys(h, n, cfg, keys, i + 1, processedPaths)
  ELSE KeyRound(h, n, cfg, keys, i, processedPaths, k, Get(h, cfg, k))

ExtendKeys(h, n, cfg, keys, i, processedPaths) ==
  IF i > Len(keys) THEN [h |-> h, err |-> NoErr]
  ELSE KeyStep(h, n, cfg, keys, i, processedPaths, Join(keys[i], <<".">>))

\* the loop over keys, after the loop over arrayPaths returned arrays
KeysAfterArrays(arrays, n, cfg, keys) ==
  IF arrays.err # NoErr THEN [h |-> arrays.h, err |-> arrays.err]
  ELSE ExtendKeys(arrays.h, n, cfg, keys, 1, arrays.processedPaths)

\* the body of Extend after the copy: n is the Root of the copy; arrayPaths
\* is what findArrayPaths(cfg.Root) returned and keys what getKeys(cfg.Root)
\* returned
ExtendInto(h, n, cfg, arrayPaths, keys) ==
  KeysAfterArrays(ExtendArrays(h, n, cfg, arrayPaths, 1, {}), n, cfg, keys)

\* Return giving the Config also with an error
ReturnBoth(n, r) == [h |-> r.h, n |-> n, err |-> r.err]

\* what Extend returns: the Config n and no error, or no Config and the
\* error r of the loops
Return(n, r) ==
  [h |-> r.h, n |-> IF r.err # NoErr THEN NoConfig ELSE n, err |-> r.err]

\* Extend without the copy: the receiver's own tree is extended
ExtendNoCopy(h, c, cfg, arrayPaths, keys) ==
  Return(c, ExtendInto(h, c, cfg, arrayPaths, keys))

\* Extend on the copy n that c.Copy() returned
ExtendCopy(n, cfg, arrayPaths, keys) ==
  IF ~n.ok THEN [h |-> n.h, n |-> NoConfig, err |-> n.err]
  ELSE Return(n.v, ExtendInto(n.h, n.v, cfg, arrayPaths, keys))

\* c.Extend(cfg) on heap h: the heap after the call, the *Config returned
\* (its Root, or NoConfig) and the error
Extend(h, c, cfg, arrayPaths, keys) == ExtendCopy(Copy(h, c, <<>>), cfg, arrayPaths, keys)

(***************************************************************************)
(* Inputs: the documents the Configs are parsed from, the paths and the    *)
(* values the calls are made with.                                         *)
(***************************************************************************)

\* the longest sequence of a parsed document
MaxLen == 2
\* the most parts of a path given to Get, Set and Copy
MaxPathLen == 2
\* the most Set calls made on the Configs of one run
MaxSets == 2
\* the most Set calls made after an Extend
MaxSetsExtended == 1

\* the sequences over S of length at most n
SeqsUpTo(S, n) == UNION {[1..k -> S] : k \in 0..n}
\* the maps from a subset of the keys K to S
MapsOver(K, S) == UNION {[D -> S] : D \in SUBSET K}

\* keys of the root mapping and of the mappings below it; "0" and "1" are
\* keys that read as indices
RootKeys == {<<"a">>}
InnerKeys == {<<"k">>, <<"0">>, <<"1">>}

\* documents of depth one over the leaves L: a leaf, a sequence of leaves,
\* a mapping of leaves with keys among K
InnerDocs(L, K) ==
  L \cup {DSeq(e) : e \in SeqsUpTo(L, MaxLen)} \cup {DMap(m) : m \in MapsOver(K, L)}
\* the same, and a container held as the one element of a sequence or under
\* one key (among W) of a mapping
MidDocs(L, K, W) ==
  InnerDocs(L, K)
    \cup {DSeq(<<d>>) : d \in InnerDocs(L, K) \ L}
    \cup {DMap([k \in {w} |-> d]) : w \in W, d \in InnerDocs(L, K) \ L}
\* the documents parsed: a mapping with the root keys, or a sequence
Docs(L, K, W) ==
  {DMap(m) : m \in MapsOver(RootKeys, MidDocs(L, K, W))}
    \cup {d \in MidDocs(L, K, W) : d.t = "slice"}

BaseDocs == Docs({Nil, Str("x")}, {<<"k">>, <<"0">>}, {<<"k">>})
OverlayDocs == Docs({Str("y")}, InnerKeys, {<<"k">>, <<"0">>})

\* the parts of the paths of the calls, and the paths
Parts == {<<"a">>, <<"k">>, <<"0">>, <<"1">>}
Paths == {Join(p, <<".">>) : p \in UNION {[1..n -> Parts] : n \in 1..MaxPathLen}}

\* the values Set is called with
Values == {Str("v")}

(***************************************************************************)
(* The state: the heap, the Configs of the run (each the Root it holds, or *)
(* NoConfig while there is none), and a record of the last call.           *)
(***************************************************************************)
VARIABLES
  heap,      \* the maps and arrays allocated so far
  base,      \* the Config parsed first (the receiver of Get, Copy, Extend)
  overlay,   \* the Config given to Extend
  extended,  \* the Config Extend returned
  copied,    \* the Config Copy returned
  sub,       \* the Config base.Get(subPath) returned
  subPath,   \* the path sub was got with
  sets,      \* the number of Set calls made
  last       \* the last call: its arguments, its error, the trees before it

vars == <<heap, base, overlay, extended, copied, sub, subPath, sets, last>>

Names == {"base", "overlay", "extended", "copied", "sub"}

Config(name) ==
  CASE name = "base" -> base [] name = "overlay" -> overlay
    [] name = "extended" -> extended [] name = "copied" -> copied [] name = "sub" -> sub

\* the document of a Config on heap h
DocOf(h, cfg) == IF cfg = NoConfig THEN NoConfig ELSE RenderYaml(h, cfg)

\* the documents of all the Configs
Snapshot == [name \in Names |-> DocOf(heap, Config(name))]

Call(op, on, path, value, err) ==
  [op |-> op, on |-> on, path |-> path, value |-> value, err |-> err, pre |-> Snapshot]

\* a panic ends the program
Crashed == last.err = Panic

\* no Config has been derived from base yet
Fresh == extended = NoConfig /\ copied = NoConfig /\ sub = NoConfig /\ last.op = "Parse"

InitBase ==
  \E d \in BaseDocs :
    LET c == ParseYaml(<<>>, d)
    IN /\ heap = c.h
       /\ base = c.v
       /\ overlay = NoConfig

InitBoth ==
  \E d \in BaseDocs, o \in OverlayDocs :
    LET c   == ParseYaml(<<>>, d)
        cfg == ParseYaml(c.h, o)
    IN /\ heap = cfg.h
       /\ base = c.v
       /\ overlay = cfg.v

InitRest ==
  /\ extended = NoConfig
  /\ copied = NoConfig
  /\ sub = NoConfig
  /\ subPath = <<>>
  /\ sets = 0
  /\ last = [op |-> "Parse", on |-> "base", path |-> <<>>, value |-> Nil, err |-> NoErr,
             pre |-> [name \in Names |-> NoConfig]]

Init == InitBase /\ InitRest

\* Config(on).Set(path, value), as long as fewer than max Set calls were made
SetOp(on, path, value, max) ==
  /\ ~Crashed
  /\ sets < max
  /\ Config(on) # NoConfig
  /\ LET r == Set(heap, Config(on), path, value)
     IN /\ heap' = r.h
        /\ last' = Call("Set", on, path, value, r.err)
  /\ sets' = sets + 1
  /\ UNCHANGED <<base, overlay, extended, copied, sub, subPath>>

\* sub = base.Get(path)
GetOp(path) ==
  /\ ~Crashed
  /\ Fresh
  /\ LET r == Get(heap, base, path)
     IN /\ sub' = IF r.err = NoErr THEN r.v ELSE NoConfig
        /\ subPath' = IF r.err = NoErr THEN path ELSE <<>>
        /\ last' = Call("Get", "base", path, Nil, r.err)
  /\ UNCHANGED <<heap, base, overlay, extended, copied, sets>>

\* copied = base.Copy(dottedPath...)
CopyOp(dottedPath) ==
  /\ ~Crashed
  /\ Fresh
  /\ LET r == Copy(heap, base, dottedPath)
     IN /\ heap' = r.h
        /\ copied' = IF r.ok THEN r.v ELSE NoConfig
        /\ last' = Call("Copy", "base", Join(dottedPath, <<".">>), Nil, r.err)
  /\ UNCHANGED <<base, overlay, extended, sub, subPath, sets>>

\* extended = base.Extend(overlay); the two lists are what the ranges over
\* the overlay's maps produced
ExtendOp ==
  /\ ~Crashed
  /\ Fresh
  /\ overlay # NoConfig
  /\ \E arrayPaths \in findArrayPaths(heap, overlay), keys \in getKeys(heap, overlay, <<>>) :
       LET r == Extend(heap, base, overlay, arrayPaths, keys)
       IN /\ heap' = r.h
          /\ extended' = r.n
          /\ last' = Call("Extend", "base", <<>>, Nil, r.err)
  /\ UNCHANGED <<base, overlay, copied, sub, subPath, sets>>

Next ==
  \/ \E on \in {"base", "copied", "sub"}, path \in Paths, value \in Values :
       SetOp(on, path, value, MaxSets)
  \/ \E path \in Paths : GetOp(path)
  \/ \E dottedPath \in {<<>>} \cup {<<path>> : path \in Paths} : CopyOp(dottedPath)

Spec == Init /\ [][Next]_vars

InitExtend == InitBoth /\ InitRest

NextExtend ==
  \/ ExtendOp
  \/ \E on \in {"base", "extended"}, path \in Paths, value \in Values :
       extended # NoConfig /\ SetOp(on, path, value, MaxSetsExtended)

SpecExtend == InitExtend /\ [][NextExtend]_vars

(***************************************************************************)
(* Paths.  One call of Get or Set on a parsed Config, with paths that hold *)
(* brackets, empty segments, signs and keys that hold a dot.               *)
(***************************************************************************)

\* the keys of the root mapping: a plain key, a key holding a dot, and the
\* key that "a[1]" reads as
PathKeys == {<<"a">>, <<"a", ".", "b">>, <<"a", "1">>}

\* what the root holds under a key
PathSubDocs ==
  {Str("x"), Nil,
   DSeq(<<Str("x"), DMap([k \in {<<"b">>} |-> Str("y")])>>),
   DMap([k \in {<<"b">>} |-> Str("y")])}

\* the documents parsed: mappings over the keys, and two sequences
PathDocs ==
  {DMap(m) : m \in MapsOver(PathKeys, PathSubDocs)}
    \cup {DSeq(<<>>), DSeq(<<Str("x"), DMap([k \in {<<"b">>} |-> Str("y")])>>)}

\* the segments of the paths, as written in the path
PathSegments ==
  {<<"a">>, <<"b">>, <<"0">>, <<"1">>, <<"-", "1">>, <<>>,
   <<"[", "a", ".", "b", "]">>, <<"a", "[", "1", "]">>, <<"[", "]">>}

\* the most segments of such a path
MaxSegments == 3

\* the paths: up to MaxSegments segments joined by dots
SegmentPaths ==
  {Join(p, <<".">>) : p \in UNION {[1..n -> PathSegments] : n \in 1..MaxSegments}}

InitPath ==
  /\ \E d \in PathDocs :
       LET c == ParseYaml(<<>>, d)
       IN /\ heap = c.h
          /\ base = c.v
          /\ overlay = NoConfig
  /\ InitRest

\* one call on the Config just parsed
NextPath ==
  \/ Fresh /\ \E path \in SegmentPaths : GetOp(path)
  \/ Fresh /\ \E path \in SegmentPaths, value \in Values : SetOp("base", path, value, 1)

SpecPath == InitPath /\ [][NextPath]_vars

(***************************************************************************)
(* Typed reads.  One call of a typed accessor or of a U accessor on a      *)
(* parsed Config that holds, at the key a, a leaf of each type, a Sequence *)
(* or a Mapping.                                                           *)
(***************************************************************************)
MaxDefaults == 2

AccessNodes ==
  {BoolLeaf(TRUE), BoolLeaf(FALSE), IntLeaf(42), IntLeaf(0 - 7),
   FloatLeaf(42), FloatLeaf(420), FloatLeaf(0 - 30), FloatLeaf(9999990), FloatLeaf(10000000),
   Str(<<"t", "r", "u", "e">>), Str(<<"4", "2">>), Str(<<"-", "7">>), Str(<<"4", ".", "2">>),
   Str(<<"x">>), Str(<<>>), Nil,
   DSeq(<<Str(<<"4", "2">>)>>), DMap([k \in {<<"b">>} |-> Str(<<"4", "2">>)])}

AccessDocs == {DMap(m) : m \in MapsOver({<<"a">>}, AccessNodes)}

AccessPaths ==
  {<<"a">>, <<"b">>, <<"a", ".", "0">>, <<"a", ".", "b">>, <<"a", ".", "-", "1">>,
   <<"a", ".", ".", "b">>}

Accessors == {"Bool", "Float64", "Int", "List", "Map", "String"}

Access(kind, h, cfg, path) ==
  CASE kind = "Bool" -> Bool(h, cfg, path)
    [] kind = "Float64" -> Float64(h, cfg, path)
    [] kind = "Int" -> ConfigInt(h, cfg, path)
    [] kind = "List" -> List(h, cfg, path)
    [] kind = "Map" -> Map(h, cfg, path)
    [] kind = "String" -> String(h, cfg, path)

UAccess(kind, h, cfg, path, defaults) ==
  CASE kind = "Bool" -> UBool(h, cfg, path, defaults)
    [] kind = "Float64" -> UFloat64(h, cfg, path, defaults)
    [] kind = "Int" -> UInt(h, cfg, path, defaults)
    [] kind = "List" -> UList(h, cfg, path, defaults)
    [] kind = "Map" -> UMap(h, cfg, path, defaults)
    [] kind = "String" -> UString(h, cfg, path, defaults)

\* the i-th default a caller supplies to the U accessor of a kind
DefaultDoc(kind, i) ==
  CASE kind = "Bool" -> BoolLeaf(i % 2 = 1)
    [] kind = "Float64" -> FloatLeaf(10 * i + 5)
    [] kind = "Int" -> IntLeaf(i)
    [] kind = "List" -> DSeq([j \in 1..i |-> Str(<<"d">>)])
    [] kind = "Map" -> DMap([k \in {Itoa(i)} |-> Str(<<"d">>)])
    [] kind = "String" -> Str(Itoa(i))

DefaultDocs(kind, n) == [i \in 1..n |-> DefaultDoc(kind, i)]

InitAccess ==
  /\ \E d \in AccessDocs :
       LET c == ParseYaml(<<>>, d)
       IN /\ heap = c.h
          /\ base = c.v
          /\ overlay = NoConfig
  /\ InitRest

AccessOp(kind, path) ==
  /\ LET r == Access(kind, heap, base, path)
     IN last' = Call(kind, "base", path, r.v, r.err)
  /\ UNCHANGED <<heap, base, overlay, extended, copied, sub, subPath, sets>>

UAccessReturn(kind, path, defaults, r) ==
  /\ heap' = r.h
  /\ last' = Call("U" \o kind, "base", path, r.v, r.err) @@ [defaults |-> defaults]
  /\ UNCHANGED <<base, overlay, extended, copied, sub, subPath, sets>>

UAccessCall(kind, path, ds) ==
  UAccessReturn(kind, path, ds.vs, UAccess(kind, ds.h, base, path, ds.vs))

UAccessOp(kind, path, n) == UAccessCall(kind, path, normalizeAll(heap, DefaultDocs(kind, n)))

NextAccess ==
  \/ Fresh /\ \E kind \in Accessors, path \in AccessPaths : AccessOp(kind, path)
  \/ Fresh /\ \E kind \in Accessors, path \in AccessPaths, n \in 0..MaxDefaults :
                UAccessOp(kind, path, n)

SpecAccess == InitAccess /\ [][NextAccess]_vars

(***************************************************************************)
(* Overrides.  One call of Env, EnvPrefix, Args or Flag on a parsed Config *)
(* whose keys hold '-', '_' and '.', with a few variables set or a few     *)
(* flags on the command line.                                              *)
(***************************************************************************)
MaxVars == 2
MaxFlags == 2

OverrideKeys == {<<"a">>, <<"a", "-", "b">>, <<"a", "_", "b">>, <<"a", ".", "b">>}

OverrideNodes ==
  {Str(<<"x">>), DMap([k \in {<<"b">>} |-> Str(<<"x">>)]), DSeq(<<Str(<<"x">>)>>)}

OverrideDocs ==
  {DMap(m) : m \in {n \in MapsOver(OverrideKeys, OverrideNodes) :
                      \A k \in DOMAIN n : n[k].t = "slice" => k = <<"a">>}}

Prefixes == {<<"p">>}

VarNames ==
  {prefix \o name : prefix \in {<<>>, <<"P", "_">>},
                    name \in {<<"A">>, <<"A", "_", "B">>, <<"A", "-", "B">>,
                              <<"A", ".", "B">>, <<"A", "_", "0">>}}

Environments ==
  {[name \in names |-> <<"e">>] : names \in {S \in SUBSET VarNames : Cardinality(S) <= MaxVars}}

FlagsGiven ==
  {[name |-> name, value |-> <<"e">>] :
     name \in {<<"a">>, <<"a", "-", "b">>, <<"a", "_", "b">>, <<"a", ".", "b">>,
               <<"a", "-", "0">>, <<"z">>}}

CommandLines ==
  {<<<<"p">>>> \o flags : flags \in UNION {[1..n -> FlagsGiven] : n \in 0..MaxFlags}}

InitOverride ==
  /\ \E d \in OverrideDocs :
       LET c == ParseYaml(<<>>, d)
       IN /\ heap = c.h
          /\ base = c.v
          /\ overlay = NoConfig
  /\ InitRest

Overridden(op, input, r) ==
  /\ heap' = r.h
  /\ last' = Call(op, "base", <<>>, Nil, r.err) @@ input
  /\ UNCHANGED <<base, overlay, extended, copied, sub, subPath, sets>>

EnvOp(env) ==
  \E keys \in getKeys(heap, base, <<>>) :
    Overridden("Env", [env |-> env, prefix |-> <<>>], Env(heap, base, env, keys))

EnvPrefixOp(prefix, env) ==
  \E keys \in getKeys(heap, base, <<>>) :
    Overridden("EnvPrefix", [env |-> env, prefix |-> ToUpper(prefix) \o <<"_">>],
               EnvPrefix(heap, base, prefix, env, keys))

ArgsOp(args) ==
  \E keys \in getKeys(heap, base, <<>>) :
    Overridden("Args", [args |-> args], Args(heap, base, args, keys))

FlagOp(osArgs) ==
  \E keys \in getKeys(heap, base, <<>>) :
    Overridden("Flag", [args |-> osArgs], Flag(heap, base, osArgs, keys))

NextOverride ==
  \/ Fresh /\ \E env \in Environments : EnvOp(env)
  \/ Fresh /\ \E prefix \in Prefixes, env \in Environments : EnvPrefixOp(prefix, env)
  \/ Fresh /\ \E args \in {<<>>} \cup CommandLines : ArgsOp(args)
  \/ Fresh /\ \E osArgs \in CommandLines : FlagOp(osArgs)

SpecOverride == InitOverride /\ [][NextOverride]_vars

(***************************************************************************)
(* Vocabulary of the properties: paths and nodes of documents, addresses   *)
(* of trees.                                                               *)
(***************************************************************************)

\* no node at the path
Missing == [t |-> "missing"]

IsLeaf(d) == d.t \notin {"map", "slice", "missing", "noconfig"}
IsContainer(d) == d.t \in {"map", "slice"}

\* the node of document d at the path with the given parts
RECURSIVE DocAt(_, _)
DocAt(d, parts) ==
  IF parts = <<>> THEN d
  ELSE CASE d.t = "map" ->
              IF Head(parts) \in DOMAIN d.m THEN DocAt(d.m[Head(parts)], Tail(parts))
              ELSE Missing
         [] d.t = "slice" ->
              LET i == Atoi(Head(parts))
              IN IF i.ok /\ i.n >= 0 /\ i.n < Len(d.e)
                   THEN DocAt(d.e[i.n + 1], Tail(parts))
                   ELSE Missing
         [] OTHER -> Missing

\* the paths (lists of parts) of all the nodes of document d
RECURSIVE DocPaths(_)
DocPaths(d) ==
  {<<>>} \cup
  CASE d.t = "map" ->
         UNION {{<<k>> \o p : p \in DocPaths(d.m[k])} : k \in DOMAIN d.m}
    [] d.t = "slice" ->
         UNION {{<<Itoa(i - 1)>> \o p : p \in DocPaths(d.e[i])} : i \in 1..Len(d.e)}
    [] OTHER -> {}

\* the paths of the leaves of d
DocLeafPaths(d) == {p \in DocPaths(d) : IsLeaf(DocAt(d, p))}

\* the proper prefixes of a list of parts
ProperPrefixes(parts) == {SubSeq(parts, 1, n) : n \in 0..(Len(parts) - 1)}

\* the path is reached in d through mapping keys only
ThroughKeys(d, parts) == \A q \in ProperPrefixes(parts) : DocAt(d, q).t = "map"

\* the dotted path of a list of parts
Dotted(parts) == Join(parts, <<".">>)

\* a well-formed dotted path without bracket segments
WellFormed(path) ==
  /\ path # <<>>
  /\ \A i \in 1..Len(path) : path[i] \notin {"[", "]"}
  /\ \A part \in {Split(path)[i] : i \in 1..Len(Split(path))} : part # <<>>

\* the addresses of the maps and arrays of the tree under v
RECURSIVE Reach(_, _)
Reach(h, v) ==
  CASE v.t = "map" ->
         {v.a} \cup UNION {Reach(h, h[v.a].m[k]) : k \in DOMAIN h[v.a].m}
    [] v.t = "slice" ->
         {v.a} \cup UNION {Reach(h, h[v.a].e[i]) : i \in 1..v.len}
    [] OTHER -> {}

\* what Get returns on a Config, as a document
GetDoc(h, cfg, path) ==
  LET r == Get(h, cfg, path)
  IN IF r.err = NoErr THEN [v |-> RenderYaml(h, r.v), err |-> NoErr]
     ELSE [v |-> Missing, err |-> r.err]

Returned(value) == [v |-> value, err |-> NoErr]

(***************************************************************************)
(* C1.  Get/Set inverse: on a Config whose root is a Mapping or a          *)
(* Sequence, whenever Set(P, V) succeeds for a well-formed dotted path P   *)
(* without brackets, Get(P) on the same Config returns V.                  *)
(***************************************************************************)
C1_GetSetInverse ==
  (/\ last.op = "Set"
   /\ last.err = NoErr
   /\ WellFormed(last.path)
   /\ IsContainer(Config(last.on)))
    => GetDoc(heap, Config(last.on), last.path) = Returned(last.value)

(***************************************************************************)
(* Extend: the documents of base and overlay before the call, and what Get *)
(* returns on the Config it returned.                                      *)
(***************************************************************************)
Extended == last.op = "Extend" /\ extended # NoConfig
BaseDoc == last.pre.base
OverlayDoc == last.pre.overlay
ResultAt(parts) == GetDoc(heap, extended, Dotted(parts))

Max(a, b) == IF a >= b THEN a ELSE b

\* the non-root paths at which the overlay holds a Sequence reached through
\* mapping keys, and base a Sequence too
BothSequences ==
  {p \in DocPaths(OverlayDoc) :
     /\ p # <<>>
     /\ ThroughKeys(OverlayDoc, p)
     /\ DocAt(OverlayDoc, p).t = "slice"
     /\ DocAt(BaseDoc, p).t = "slice"}

(***************************************************************************)
(* C2.  Extend array merge: where base and overlay both hold a Sequence at *)
(* the same path, reached through mapping keys, the Config a successful    *)
(* Extend returns holds there a Sequence of length max(len(base),          *)
(* len(overlay)), whose element i is overlay[i] for i < len(overlay) and   *)
(* base[i] for len(overlay) <= i < len(base).                              *)
(***************************************************************************)
C2_ArrayMerge ==
  Extended =>
    \A p \in BothSequences :
      LET b == DocAt(BaseDoc, p).e
          o == DocAt(OverlayDoc, p).e
      IN ResultAt(p) =
           Returned(DSeq([i \in 1..Max(Len(b), Len(o)) |-> IF i <= Len(o) THEN o[i] ELSE b[i]]))

\* an Extend that merged a shorter overlay Sequence into a longer one of base
C2_Witness ==
  /\ Extended
  /\ \E p \in BothSequences :
       /\ Len(DocAt(OverlayDoc, p).e) > 0
       /\ Len(DocAt(BaseDoc, p).e) > Len(DocAt(OverlayDoc, p).e)
       /\ ResultAt(p).err = NoErr

(***************************************************************************)
(* C3.  Extend scalar override: for every path that resolves to a leaf     *)
(* both in base and in overlay, Get at that path on the Config a           *)
(* successful Extend returns gives the overlay's value.                    *)
(***************************************************************************)
C3_ScalarOverride ==
  Extended =>
    \A p \in DocLeafPaths(OverlayDoc) \cap DocLeafPaths(BaseDoc) :
      ResultAt(p) = Returned(DocAt(OverlayDoc, p))

\* an Extend that replaced a leaf of base by a different leaf of overlay
C3_Witness ==
  /\ Extended
  /\ \E p \in DocLeafPaths(OverlayDoc) \cap DocLeafPaths(BaseDoc) :
       /\ DocAt(OverlayDoc, p) # DocAt(BaseDoc, p)
       /\ ResultAt(p) = Returned(DocAt(OverlayDoc, p))

(***************************************************************************)
(* C4.  Extend adds what base lacks: every leaf path of the overlay that   *)
(* does not resolve in base resolves, in the Config a successful Extend    *)
(* returns, to the overlay's value, whatever the root kinds are.           *)
(***************************************************************************)
C4_AddsMissing ==
  Extended =>
    \A p \in DocLeafPaths(OverlayDoc) :
      DocAt(BaseDoc, p) = Missing => ResultAt(p) = Returned(DocAt(OverlayDoc, p))

\* the leaf paths of base at which the overlay has no node, while every
\* proper prefix the overlay has holds a container of the same kind as base's
SameKindPrefixes(p) ==
  \A q \in ProperPrefixes(p) :
    DocAt(OverlayDoc, q) # Missing =>
      IsContainer(DocAt(OverlayDoc, q)) /\ DocAt(OverlayDoc, q).t = DocAt(BaseDoc, q).t
Untouched ==
  {p \in DocLeafPaths(BaseDoc) : DocAt(OverlayDoc, p) = Missing /\ SameKindPrefixes(p)}

\* p passes through an element of a Sequence that the overlay reaches
\* through (one or more) mapping keys: Extend stores the overlay's element
\* in place of base's
ThroughMergedElement(p) ==
  \E n \in 1..(Len(p) - 1) :
    /\ ThroughKeys(OverlayDoc, SubSeq(p, 1, n))
    /\ DocAt(OverlayDoc, SubSeq(p, 1, n)).t = "slice"
    /\ DocAt(OverlayDoc, SubSeq(p, 1, n + 1)) # Missing

(***************************************************************************)
(* C5 as claimed.  Extend keeps what the overlay does not touch: every     *)
(* leaf path P of base at which the overlay has no node, every proper      *)
(* prefix of P that the overlay has holding a container of the same kind   *)
(* as in base, resolves in the result of a successful Extend to base's     *)
(* value.                                                                  *)
(***************************************************************************)
C5_KeepsUntouched ==
  Extended => \A p \in Untouched : ResultAt(p) = Returned(DocAt(BaseDoc, p))

(***************************************************************************)
(* C5 as amended.  The same, for the paths P that do not pass through an   *)
(* element of an overlay Sequence reached through mapping keys (Extend     *)
(* replaces such an element of base whole by the overlay's).               *)
(***************************************************************************)
C5_KeepsUntouchedOutsideElements ==
  Extended =>
    \A p \in Untouched :
      ~ThroughMergedElement(p) => ResultAt(p) = Returned(DocAt(BaseDoc, p))

\* an Extend that changed base next to a leaf it kept: the kept leaf lies
\* under a container that the overlay has too
C5_Witness ==
  /\ Extended
  /\ RenderYaml(heap, extended) # BaseDoc
  /\ \E p \in Untouched :
       /\ ~ThroughMergedElement(p)
       /\ \E q \in ProperPrefixes(p) : q # <<>> /\ DocAt(OverlayDoc, q) # Missing
       /\ ResultAt(p) = Returned(DocAt(BaseDoc, p))

(***************************************************************************)
(* C6.  Extend never mutates the overlay: after base.Extend(overlay)       *)
(* returned, with a Config or with an error, the overlay's tree equals     *)
(* the tree it was before the call.                                        *)
(***************************************************************************)
C6_OverlayUnchanged ==
  last.op = "Extend" => DocOf(heap, overlay) = OverlayDoc

\* an Extend that stored nodes of the overlay in the Config it returned
C6_Witness ==
  /\ Extended
  /\ Reach(heap, extended) \cap Reach(heap, overlay) # {}

(***************************************************************************)
(* C7.  Extend works on an independent copy of base: Extend leaves base's  *)
(* tree as it was (on success and on error), the Config it returns shares  *)
(* no node with base, and no later Set on the one changes what Get returns *)
(* on the other.                                                           *)
(***************************************************************************)
C7_BaseIndependent ==
  /\ last.op = "Extend" => DocOf(heap, base) = BaseDoc
  /\ extended # NoConfig =>
       /\ Reach(heap, extended) \cap Reach(heap, base) = {}
       /\ (last.op = "Set" /\ last.on = "extended") => DocOf(heap, base) = last.pre.base
       /\ (last.op = "Set" /\ last.on = "base") => DocOf(heap, extended) = last.pre.extended

\* a Set on the Config Extend returned that changed that Config's tree
C7_Witness ==
  /\ extended # NoConfig
  /\ last.op = "Set"
  /\ last.on = "extended"
  /\ last.err = NoErr
  /\ DocOf(heap, extended) # last.pre.extended
  /\ Reach(heap, base) # {}

\* the keys of a Mapping that are not integers
NonIntKeys(d) == {k \in DOMAIN d.m : ~Atoi(k).ok}

\* the document holds a leaf or a Sequence
HoldsLeafOrSequence(d) == \E q \in DocPaths(d) : IsLeaf(DocAt(d, q)) \/ DocAt(d, q).t = "slice"

AllOrNothing == (extended = NoConfig) <=> (last.err # NoErr)

(***************************************************************************)
(* C8 as claimed.  Extend returns either a Config and no error or no       *)
(* Config and an error; when the overlay holds a Mapping with a            *)
(* non-integer key at a path where base holds a Sequence, it returns no    *)
(* Config and an invalid-list-index error naming that key.                 *)
(***************************************************************************)
C8_AllOrNothing ==
  last.op = "Extend" =>
    /\ AllOrNothing
    /\ \A p \in DocPaths(OverlayDoc) :
         (/\ DocAt(OverlayDoc, p).t = "map"
          /\ DocAt(BaseDoc, p).t = "slice"
          /\ NonIntKeys(DocAt(OverlayDoc, p)) # {})
           => /\ extended = NoConfig
              /\ last.err.kind = "InvalidIndex"
              /\ last.err.at \in NonIntKeys(DocAt(OverlayDoc, p))

(***************************************************************************)
(* C8 as amended.  Extend returns either a Config and no error or no       *)
(* Config and an error; when the overlay holds, at a path it reaches       *)
(* through mapping keys and where base holds a Sequence, a Mapping with a  *)
(* non-integer key under which the overlay has a leaf or a Sequence,       *)
(* Extend returns no Config and an error; and an invalid-list-index error  *)
(* of Extend names a non-integer key of a Mapping of the overlay.          *)
(***************************************************************************)
C8_AllOrNothingThroughKeys ==
  last.op = "Extend" =>
    /\ AllOrNothing
    /\ \A p \in DocPaths(OverlayDoc) :
         (/\ ThroughKeys(OverlayDoc, p)
          /\ DocAt(OverlayDoc, p).t = "map"
          /\ DocAt(BaseDoc, p).t = "slice"
          /\ \E k \in NonIntKeys(DocAt(OverlayDoc, p)) :
               HoldsLeafOrSequence(DocAt(OverlayDoc, p).m[k]))
           => extended = NoConfig /\ last.err # NoErr
    /\ last.err.kind = "InvalidIndex" =>
         \E p \in DocPaths(OverlayDoc) :
           /\ DocAt(OverlayDoc, p).t = "map"
           /\ last.err.at \in NonIntKeys(DocAt(OverlayDoc, p))

\* an Extend that failed on the non-integer key "k" of an overlay Mapping
\* lying where base holds a non-empty Sequence
C8_Witness ==
  /\ last.op = "Extend"
  /\ extended = NoConfig
  /\ last.err = Err("InvalidIndex", <<"k">>)
  /\ \E p \in DocPaths(OverlayDoc) :
       /\ p # <<>>
       /\ DocAt(OverlayDoc, p).t = "map"
       /\ DocAt(BaseDoc, p).t = "slice"
       /\ Len(DocAt(BaseDoc, p).e) > 0

(***************************************************************************)
(* C9.  Copy isolation: after copied = base.Copy(...), the two trees share *)
(* no node, no Set on the copy changes what Get returns on base and no Set *)
(* on base changes what Get returns on the copy.                           *)
(***************************************************************************)
C9_CopyIsolation ==
  copied # NoConfig =>
    /\ Reach(heap, copied) \cap Reach(heap, base) = {}
    /\ (last.op = "Set" /\ last.on = "copied") => DocOf(heap, base) = last.pre.base
    /\ (last.op = "Set" /\ last.on = "base") => DocOf(heap, copied) = last.pre.copied

\* a second Set on a copy that holds containers, which changed the copy
C9_Witness ==
  /\ copied # NoConfig
  /\ sets = 2
  /\ last.op = "Set"
  /\ last.on = "copied"
  /\ last.err = NoErr
  /\ DocOf(heap, copied) # last.pre.copied
  /\ Cardinality(Reach(heap, copied)) >= 2

(***************************************************************************)
(* C10.  Sub-handle aliasing: when sub = base.Get(P) succeeded on a        *)
(* container, then after sub.Set(Q, V) succeeded, base.Get(P.Q) returns V. *)
(***************************************************************************)
C10_SubHandleAliasing ==
  (/\ last.op = "Set"
   /\ last.on = "sub"
   /\ sets = 1
   /\ last.err = NoErr
   /\ IsContainer(sub)
   /\ WellFormed(last.path))
    => GetDoc(heap, base, subPath \o <<".">> \o last.path) = Returned(last.value)

(***************************************************************************)
(* Set: the parts of the path of the last call, the document of the Config *)
(* it was made on before the call and after it.                            *)
(***************************************************************************)
LastParts == Split(last.path)
PreDoc == last.pre[last.on]
PostDoc == DocOf(heap, Config(last.on))

\* a successful or failed Set with a well-formed path on a Config
SetCalled == last.op = "Set" /\ WellFormed(last.path) /\ PreDoc # NoConfig

\* Set was called with a two-part path on a Mapping that lacks the first part
AbsentKey ==
  /\ SetCalled
  /\ PreDoc.t = "map"
  /\ Len(LastParts) = 2
  /\ LastParts[1] \notin DOMAIN PreDoc.m

(***************************************************************************)
(* C11.  Densification on an absent key: Set(root, "a.n", V) on a Mapping  *)
(* that lacks key a succeeds and leaves under a a Sequence of length n+1,  *)
(* Null at the indices below n and V at n, when n is an integer n >= 0; it *)
(* leaves under a a Mapping holding V under the key n when n is no         *)
(* integer.                                                                *)
(***************************************************************************)
C11_DensifyAbsentKey ==
  AbsentKey =>
    LET n == Atoi(LastParts[2])
    IN /\ last.err = NoErr
       /\ DocAt(PostDoc, <<LastParts[1]>>) =
            IF n.ok THEN DSeq(Nils(n.n) \o <<last.value>>)
            ELSE DMap([k \in {LastParts[2]} |-> last.value])

\* a Set that left a Sequence of length 2 under an absent key
C11_Witness ==
  /\ AbsentKey
  /\ Atoi(LastParts[2]) = [ok |-> TRUE, n |-> 1]
  /\ DocAt(PostDoc, <<LastParts[1]>>) = DSeq(<<Nil, last.value>>)

\* the positions n of the path at which Set reaches, after n parts, a
\* Sequence of the tree that is too short for the index that follows
TooShortAt ==
  {n \in 0..(Len(LastParts) - 1) :
     LET d == DocAt(PreDoc, SubSeq(LastParts, 1, n))
         i == Atoi(LastParts[n + 1])
     IN d.t = "slice" /\ i.ok /\ i.n >= Len(d.e)}

(***************************************************************************)
(* C12.  Densification of an existing Sequence: when Set reaches a         *)
(* Sequence of length L of the tree with an index i >= L and succeeds, the *)
(* Sequence at that place has length i+1 afterwards, Null at the indices   *)
(* L..i-1 and, when the index is the last part, the value at index i.      *)
(***************************************************************************)
C12_DensifyExisting ==
  (SetCalled /\ last.err = NoErr) =>
    \A n \in TooShortAt :
      LET before == DocAt(PreDoc, SubSeq(LastParts, 1, n))
          after  == DocAt(PostDoc, SubSeq(LastParts, 1, n))
          i      == Atoi(LastParts[n + 1]).n
      IN /\ after.t = "slice"
         /\ Len(after.e) = i + 1
         /\ \A j \in (Len(before.e) + 1)..i : after.e[j] = Nil
         /\ (n + 1 = Len(LastParts)) => after.e[i + 1] = last.value

(***************************************************************************)
(* Get: the walk of a document along the segments of a path.               *)
(***************************************************************************)

\* the segment reads as an integer: an optional sign and digits
IsInteger(segment) == Atoi(segment).ok
IsNegative(segment) == Atoi(segment).ok /\ Atoi(segment).n < 0

\* the node the segments from position pos on lead to from node d, or the
\* error of the first segment that cannot be followed, naming the sub-path
\* up to and including it
RECURSIVE Walk(_, _, _)
Walk(d, segments, pos) ==
  IF pos > Len(segments) THEN [v |-> d, err |-> NoErr]
  ELSE LET at == Dotted(SubSeq(segments, 1, pos))
       IN CASE d.t = "slice" /\ ~IsInteger(segments[pos]) ->
                 [v |-> Missing, err |-> Err("InvalidIndex", at)]
            [] d.t = "slice" /\ IsInteger(segments[pos]) ->
                 IF Atoi(segments[pos]).n >= Len(d.e)
                   THEN [v |-> Missing, err |-> Err("IndexOutOfRange", at)]
                   ELSE Walk(d.e[Atoi(segments[pos]).n + 1], segments, pos + 1)
            [] d.t = "map" ->
                 IF segments[pos] \in DOMAIN d.m
                   THEN Walk(d.m[segments[pos]], segments, pos + 1)
                   ELSE [v |-> Missing, err |-> Err("NoSuchKey", at)]
            [] OTHER -> [v |-> Missing, err |-> Err("InvalidType", at)]

\* Get was called with a well-formed dotted path without brackets
GetCalled == last.op = "Get" /\ WellFormed(last.path)

\* what the last Get returned, as a document
GetResult ==
  [v |-> IF last.err = NoErr THEN DocOf(heap, sub) ELSE Missing, err |-> last.err]

NegativeOnSequence ==
  \E n \in 0..(Len(LastParts) - 1) :
    /\ DocAt(PreDoc, SubSeq(LastParts, 1, n)).t = "slice"
    /\ IsNegative(LastParts[n + 1])

\* the last call has a negative integer segment after a key that the Mapping
\* reached lacks
NegativeAfterMissingKey ==
  \E n \in 0..(Len(LastParts) - 2) :
    /\ DocAt(PreDoc, SubSeq(LastParts, 1, n)).t = "map"
    /\ LastParts[n + 1] \notin DOMAIN DocAt(PreDoc, SubSeq(LastParts, 1, n)).m
    /\ IsNegative(LastParts[n + 2])

(***************************************************************************)
(* C14.  Negative indices are rejected as errors: a Get or a Set whose     *)
(* path applies a negative integer segment to a Sequence, and a Set whose  *)
(* path has one after a missing mapping key, returns an InvalidIndex       *)
(* error, does not crash and leaves the tree as it was.                    *)
(***************************************************************************)
C14_NegativeRejected ==
  (/\ GetCalled \/ SetCalled
   /\ NegativeOnSequence \/ (SetCalled /\ NegativeAfterMissingKey))
    => /\ last.err.kind = "InvalidIndex"
       /\ PostDoc = PreDoc

(***************************************************************************)
(* Read paths as written: the segments between the dots that lie outside   *)
(* brackets.                                                               *)
(***************************************************************************)

\* the segments of a path from character i on: open tells whether a bracket
\* is open, buffer is the segment read so far
RECURSIVE WrittenLoop(_, _, _, _, _)
WrittenLoop(path, i, open, buffer, segments) ==
  IF i > Len(path) THEN Append(segments, buffer)
  ELSE IF path[i] = "." /\ ~open
    THEN WrittenLoop(path, i + 1, open, <<>>, Append(segments, buffer))
  ELSE WrittenLoop(path, i + 1, (open \/ path[i] = "[") /\ path[i] # "]",
                   Append(buffer, path[i]), segments)

Written(path) == WrittenLoop(path, 1, FALSE, <<>>, <<>>)

\* a segment without brackets, and a segment in brackets
IsPlain(segment) ==
  segment # <<>> /\ \A i \in 1..Len(segment) : segment[i] \notin {"[", "]"}
IsQuoted(segment) ==
  /\ Len(segment) > 2
  /\ segment[1] = "["
  /\ segment[Len(segment)] = "]"
  /\ IsPlain(SubSeq(segment, 2, Len(segment) - 1))

\* the text a plain or quoted segment stands for
Literal(segment) ==
  IF IsQuoted(segment) THEN SubSeq(segment, 2, Len(segment) - 1) ELSE segment

\* the segments of the path of the last call, and the texts they stand for
LastWritten == Written(last.path)
LastLiterals == [i \in 1..Len(LastWritten) |-> Literal(LastWritten[i])]

\* the path of the last call is made of plain and quoted segments, none a
\* negative integer
PlainOrQuoted ==
  \A i \in 1..Len(LastWritten) :
    /\ IsPlain(LastWritten[i]) \/ IsQuoted(LastWritten[i])
    /\ ~IsNegative(LastLiterals[i])

(***************************************************************************)
(* C15.  Bracket-quoted read segments: in a read path the text between [   *)
(* and ] is one literal segment even when it holds dots; bracketed and     *)
(* plain segments can be mixed.  Get resolves the path segment by segment  *)
(* with these literal texts as keys and indices.                           *)
(***************************************************************************)
C15_BracketSegments ==
  (last.op = "Get" /\ PlainOrQuoted) => GetResult = Walk(PreDoc, LastLiterals, 1)

\* a Get of "[a.b]" that returned the leaf under the key a.b of a Mapping
\* that has a key a too
C15_Witness ==
  /\ last.op = "Get"
  /\ last.path = <<"[", "a", ".", "b", "]">>
  /\ GetResult = Returned(Str("x"))
  /\ <<"a">> \in DOMAIN PreDoc.m

\* a segment of the form name[i]: a plain name, then an index in brackets
IsIndexed(segment) ==
  \E k \in 2..(Len(segment) - 2) :
    /\ segment[k] = "["
    /\ segment[Len(segment)] = "]"
    /\ IsPlain(SubSeq(segment, 1, k - 1))
    /\ \A j \in (k + 1)..(Len(segment) - 1) : segment[j] \in Digits

\* name[i] written as the two segments name.i
Unbracketed(segment) ==
  SelectSeq([i \in 1..Len(segment) |-> IF segment[i] = "[" THEN "." ELSE segment[i]],
            LAMBDA ch : ch # "]")

\* the path of the last call with every segment name[i] written name.i
LastUnbracketed ==
  Join([i \in 1..Len(LastWritten) |->
          IF IsIndexed(LastWritten[i]) THEN Unbracketed(LastWritten[i]) ELSE LastWritten[i]],
       <<".">>)

(***************************************************************************)
(* C16.  Bracket notation for array access: a read path with segments of   *)
(* the form name[i] gives the same result as the path with name.i in their *)
(* place, as Get("database.replicas[1].host") and                          *)
(* Get("database.replicas.1.host").                                        *)
(***************************************************************************)
C16_BracketIndex ==
  (/\ last.op = "Get"
   /\ \E i \in 1..Len(LastWritten) : IsIndexed(LastWritten[i])
   /\ \A i \in 1..Len(LastWritten) : IsIndexed(LastWritten[i]) \/ IsPlain(LastWritten[i]))
    => GetResult = GetDoc(heap, base, LastUnbracketed)

\* an empty segment: nothing, or an empty bracket pair
IsEmpty(segment) == segment = <<>> \/ segment = <<"[", "]">>

\* the path of the last call starts with a single dot
LeadingDot ==
  Len(LastWritten) >= 2 /\ LastWritten[1] = <<>> /\ LastWritten[2] # <<>>

\* the path of the last call has an empty segment that is not a leading one
OtherEmptySegment ==
  \/ \E i \in 2..Len(LastWritten) : IsEmpty(LastWritten[i])
  \/ LastWritten[1] = <<"[", "]">>

\* two results of Get are the same node, or the same kind of error naming
\* the same sub-path (an InvalidPath error names the whole path given)
SameOutcome(r1, r2) ==
  /\ r1.v = r2.v
  /\ r1.err.kind = r2.err.kind
  /\ r1.err.kind # "InvalidPath" => r1.err.at = r2.err.at

(***************************************************************************)
(* C20.  Read-path empty segments: Get on a path that starts with a single *)
(* dot behaves as on the path without it, and Get on a path with any other *)
(* empty segment (two consecutive dots, a trailing dot, an empty bracket   *)
(* pair) returns an InvalidPath error.                                     *)
(***************************************************************************)
C20_EmptySegments ==
  last.op = "Get" =>
    /\ LeadingDot => SameOutcome(GetResult, GetDoc(heap, base, Tail(last.path)))
    /\ OtherEmptySegment => last.err.kind = "InvalidPath"

(***************************************************************************)
(* Typed reads: the kind of the U accessor last called, what the accessor  *)
(* of that kind returns for the path, and the zero value of the kind.      *)
(***************************************************************************)
UCalled == last.op \in {"U" \o kind : kind \in Accessors}

UKind == CHOOSE kind \in Accessors : last.op = "U" \o kind

ZeroDoc(kind) ==
  CASE kind = "Bool" -> BoolLeaf(FALSE)
    [] kind = "Float64" -> FloatLeaf(0)
    [] kind = "Int" -> IntLeaf(0)
    [] kind = "List" -> DSeq(<<>>)
    [] kind = "Map" -> DMap(<<>>)
    [] kind = "String" -> Str(<<>>)

Substituted(r) ==
  /\ r.err = NoErr => last.value = r.v
  /\ r.err # NoErr /\ last.defaults # <<>> => last.value = last.defaults[1]
  /\ r.err # NoErr /\ last.defaults = <<>> => RenderYaml(heap, last.value) = ZeroDoc(UKind)

(***************************************************************************)
(* C17.  Default-substituting accessors: for each of UBool, UInt,          *)
(* UFloat64, UString, UList and UMap and every path, the call returns      *)
(* without an error or a crash and leaves the tree as it was; its result   *)
(* is the value of the corresponding accessor when that succeeds, the      *)
(* first supplied default when it fails and a default was supplied, and    *)
(* the zero value of the type (false, 0, 0.0, "", the empty Sequence, the  *)
(* empty Mapping) when it fails and none was supplied.                     *)
(***************************************************************************)
C17_DefaultSubstitution ==
  UCalled =>
    /\ last.err = NoErr
    /\ PostDoc = PreDoc
    /\ Substituted(Access(UKind, heap, base, last.path))

(***************************************************************************)
(* Int: the node the path of the last call resolves to, and the texts that *)
(* are base-10 integers (an optional sign, then digits).                   *)
(***************************************************************************)
IntCalled == last.op = "Int"

Resolved == Get(heap, base, last.path)

IsBase10Integer(s) ==
  /\ s # <<>>
  /\ LET digits == IF s[1] \in {"+", "-"} THEN Tail(s) ELSE s
     IN digits # <<>> /\ \A i \in 1..Len(digits) : digits[i] \in Digits

Base10Value(s) ==
  IF s[1] = "-" THEN 0 - DigitsVal(Tail(s))
  ELSE IF s[1] = "+" THEN DigitsVal(Tail(s)) ELSE DigitsVal(s)

IntCoerced(node) ==
  CASE node.t = "float64" ->
         IF node.tenths % 10 = 0
           THEN last.err = NoErr /\ last.value = IntLeaf(TruncFloat(node.tenths))
         ELSE last.err \notin {NoErr, Panic}
    [] node.t = "int" -> last.err = NoErr /\ last.value = node
    [] node.t = "string" ->
         IF IsBase10Integer(node.v)
           THEN last.err = NoErr /\ last.value = IntLeaf(Base10Value(node.v))
         ELSE last.err \notin {NoErr, Panic}
    [] OTHER -> last.err.kind = "TypeMismatch"

(***************************************************************************)
(* C18.  Int coercion: Int(path) on a Float leaf succeeds exactly when the *)
(* float has no fractional part, and returns that integer; on an Integer   *)
(* leaf it returns the value; on a String leaf it succeeds exactly when    *)
(* the string is a base-10 integer; on a Boolean, a Null, a Sequence or a  *)
(* Mapping it fails with a TypeMismatch.                                   *)
(***************************************************************************)
C18_IntCoercion == IntCalled /\ Resolved.err = NoErr => IntCoerced(Resolved.v)

(***************************************************************************)
(* Overrides: the last call, and whether the variable or the flag derived  *)
(* from a leaf path was supplied to it.                                    *)
(***************************************************************************)
EnvCalled == last.op \in {"Env", "EnvPrefix"}
ArgsCalled == last.op \in {"Args", "Flag"}

Supplied(p) ==
  IF EnvCalled THEN last.prefix \o ToUpper(Join(p, <<"_">>)) \in DOMAIN last.env
  ELSE \E i \in 2..Len(last.args) : last.args[i].name = Join(p, <<"-">>)

SuppliedValue(p) ==
  IF EnvCalled THEN Str(last.env[last.prefix \o ToUpper(Join(p, <<"_">>))])
  ELSE Str(<<"e">>)

(***************************************************************************)
(* C19.  Fixed key space of the external overrides: after Env, EnvPrefix,  *)
(* Args or Flag the set of leaf paths of the tree is the set before the    *)
(* call, also when keys contain '-' or '_'; a leaf has changed only when   *)
(* the variable or the flag derived from its own path was supplied, and    *)
(* then it holds the supplied string.                                      *)
(***************************************************************************)
C19_FixedKeySpace ==
  EnvCalled \/ ArgsCalled =>
    /\ DocLeafPaths(PostDoc) = DocLeafPaths(PreDoc)
    /\ \A p \in DocLeafPaths(PreDoc) :
         DocAt(PostDoc, p) # DocAt(PreDoc, p) =>
           Supplied(p) /\ DocAt(PostDoc, p) = SuppliedValue(p)

(***************************************************************************)
(* Failed Set: the last call was a Set that returned an error, and the     *)
(* walk of its path had to pass below the root.                            *)
(***************************************************************************)
SetFailed == last.op = "Set" /\ last.err \notin {NoErr, Panic}

(***************************************************************************)
(* C21 as claimed.  Set is not transactional: there are a tree, a path and *)
(* a value for which Set returns an error after having inserted newly      *)
(* materialized containers, so that the tree after the failed call differs *)
(* from the tree before it.  The tree is any document parsed now.          *)
(***************************************************************************)
C21_NotTransactional ==
  \E d \in PathDocs, path \in SegmentPaths, value \in Values :
    LET c == ParseYaml(heap, d)
        r == Set(c.h, c.v, path, value)
    IN r.err \notin {NoErr, Panic} /\ RenderYaml(r.h, c.v) # d

(***************************************************************************)
(* C21 as amended.  A Set that returns an error leaves the tree as it was: *)
(* every error Set returns is found before anything is materialized.  A    *)
(* failed call leaves a changed tree only when it crashes.                 *)
(***************************************************************************)
C21_ErrorLeavesTree == SetFailed => PostDoc = PreDoc

C21_Witness ==
  /\ SetFailed
  /\ last.err.kind \in {"InvalidIndex", "InvalidTypeAtRoot"}
  /\ Len(Normalize(Split(last.path))) >= 2
  /\ PostDoc = PreDoc

(***************************************************************************)
(* Extend again: what a call returns, as the document of the Config        *)
(* returned and the error, and what the call just made returned.           *)
(***************************************************************************)
Outcome(r) == <<DocOf(r.h, r.n), r.err>>

ExtendCalled == last.op = "Extend"

(***************************************************************************)
(* C22.  Extend is deterministic: for a fixed base and overlay the tree it *)
(* returns, or the error, is the same whatever the order in which the keys *)
(* of the overlay's Mappings are enumerated while the array paths and the  *)
(* leaf paths are collected and applied.  Extend leaves base and overlay   *)
(* as they were, so every order can be replayed after the call.            *)
(***************************************************************************)
C22_ExtendDeterministic ==
  ExtendCalled =>
    \A arrayPaths \in findArrayPaths(heap, overlay), keys \in getKeys(heap, overlay, <<>>) :
      Outcome(Extend(heap, base, overlay, arrayPaths, keys)) = <<DocOf(heap, extended), last.err>>

(***************************************************************************)
(* C23.  The Config a successful Extend returns shares no mutable node     *)
(* with the overlay: no later Set on the result changes what Get returns   *)
(* on the overlay, neither through a Sequence copied into the result       *)
(* because base had none at its path nor through a container that is an    *)
(* element of a merged Sequence.                                           *)
(***************************************************************************)
C23_OverlayIsolated ==
  last.op = "Set" /\ last.on = "extended" => DocOf(heap, overlay) = last.pre.overlay

====
